---- MODULE Spec2Model ----
(***************************************************************************)
(* A model of package responder (cli/responder/response.go): construction  *)
(* of a responder R by New and its option functions, the prompt rendering, *)
(* and the response loop GetResponseIndent / getResp / getRune, together   *)
(* with the terminal mode that getRune switches, and of the FixedResponse   *)
(* that stands in for a responder in tests.                                *)
(*                                                                         *)
(* Runes are code points (integers); strings are sequences of code points. *)
(* The response map is modelled by its key set: the description strings    *)
(* are read only by PrintHelpIndent, whose text is produced by the         *)
(* external twrap package.                                                 *)
(***************************************************************************)
EXTENDS Integers, Sequences, FiniteSets, TLC

\* ------------------------------------------------------------------ bounds
\* most responses in a candidate map handed to New
MaxResps == 3
\* most option functions handed to New
MaxOpts == 2
\* largest argument tried for SetMaxReprompts
MaxLimit == 2
\* most prompts printed (and so reads made) in one session
MaxReads == 3

\* ------------------------------------------------------ program constants
helpRune == 63
errExitStatus == 1
\* unicode.ReplacementChar
ReplacementChar == 65533
\* the list indent added by GetResponseIndent to its error lines ("    ")
\* is plain text and not modelled as a number.

\* --------------------------------------------------------------- the runes
\* The runes read from the input: tab, return, space, '?', 'I', 'Y', 'i',
\* 'n', 'y', U+0131 (dotless i), U+01C5 (Dz digraph, title case), U+01C6
\* (dz digraph, lower case).
Runes == {9, 13, 32, 63, 73, 89, 105, 110, 121, 305, 453, 454}

\* the runes tried as keys of a candidate map and as SetDefault arguments
KeyRunes == {32, 63, 89, 110, 121, 305, 453}

\* unicode.IsSpace on the runes of the model
IsSpace(c) == c \in {9, 10, 11, 12, 13, 32, 133, 160}

\* unicode.IsUpper on the runes of the model: category Lu only, so the
\* title-case U+01C5 is not upper.
IsUpper(c) == (c >= 65 /\ c <= 90) \/ c = 452

\* unicode.ToLower on the runes of the model
ToLower(c) ==
    IF c >= 65 /\ c <= 90 THEN c + 32
    ELSE IF c = 452 \/ c = 453 THEN 454
    ELSE c

\* ------------------------------------------------------------------ errors
\* An error value: kind "nil" is the nil error; c is the rune an error
\* message is formatted with (0 when it has none).
Err(kind, c) == [kind |-> kind, c |-> c]
NilErr == Err("nil", 0)
\* io.EOF
EOF == Err("EOF", 0)
\* any other error of bufio.Reader.ReadRune
ReadErr == Err("read", 0)

\* ------------------------------------------------------------- the type R
\* The fields of R set by New and its options. The validResps field is a Go
\* map, a reference: it is the variable responses below, the very map the
\* caller handed to New (r.validResps = responses).
ZeroR(prompt) ==
    [prompt |-> prompt, hasDflt |-> FALSE, dflt |-> 0,
     maxReprompts |-> 0, limitPrompts |-> FALSE,
     indent |-> 0, indentFirst |-> 0]

\* The result of an option function or of New: the responder and the error.
Res(r, err) == [r |-> r, err |-> err]

\* SetDefault(d) applied to r, whose validResps is the map vr
SetDefault(d, r, vr) ==
    IF d \notin vr
    THEN Res(r, Err("SetDefault", d))
    ELSE Res([r EXCEPT !.dflt = d, !.hasDflt = TRUE], NilErr)

\* a faulty SetMaxReprompts: a maximum of 0 is let through
SetMaxReprompts_ZeroAllowed(maximum, r) ==
    IF maximum < 0
    THEN Res(r, Err("SetMaxReprompts", 0))
    ELSE Res([r EXCEPT !.maxReprompts = maximum, !.limitPrompts = TRUE], NilErr)

\* SetMaxReprompts(maximum) applied to r
SetMaxReprompts(maximum, r) ==
    IF maximum <= 0
    THEN Res(r, Err("SetMaxReprompts", 0))
    ELSE Res([r EXCEPT !.maxReprompts = maximum, !.limitPrompts = TRUE], NilErr)

\* SetIndents(indentFirst, indent) applied to r
SetIndents(indentFirst, indent, r) ==
    IF indent < 0
    THEN Res(r, Err("SetIndents", 0))
    ELSE IF indentFirst < 0
    THEN Res(r, Err("SetIndents", 0))
    ELSE Res([r EXCEPT !.indent = indent, !.indentFirst = indentFirst], NilErr)

\* An option function value (RespOptFunc), as the call that made it.
OptDefault(d) == [op |-> "SetDefault", a |-> d, b |-> 0]
OptMaxReprompts(m) == [op |-> "SetMaxReprompts", a |-> m, b |-> 0]
OptIndents(f, s) == [op |-> "SetIndents", a |-> f, b |-> s]

\* o(r): the option function o called on r
ApplyOpt(o, r, vr) ==
    IF o.op = "SetDefault" THEN SetDefault(o.a, r, vr)
    ELSE IF o.op = "SetMaxReprompts" THEN SetMaxReprompts(o.a, r)
    ELSE SetIndents(o.a, o.b, r)

\* a faulty ApplyOpts: the options are applied from the last to the first
RECURSIVE ApplyOpts_Backwards(_, _, _, _)
ApplyOpts_Backwards(opts, k, r, vr) ==
    IF k > Len(opts) THEN Res(r, NilErr)
    ELSE LET rest == ApplyOpts_Backwards(opts, k + 1, r, vr)
         IN IF rest.err # NilErr THEN rest
            ELSE ApplyOpt(opts[k], rest.r, vr)

\* the loop of New over opts from index k: the first failing option ends it
RECURSIVE ApplyOpts(_, _, _, _)
ApplyOpts(opts, k, r, vr) ==
    IF k > Len(opts) THEN Res(r, NilErr)
    ELSE LET res == ApplyOpt(opts[k], r, vr)
         IN IF res.err # NilErr THEN res
            ELSE ApplyOpts(opts, k + 1, res.r, vr)

\* the check New makes of one key of responses
BadKey(v) == IsUpper(v) \/ IsSpace(v) \/ v = helpRune

\* New(prompt, responses, opts...): the responder and the error. On an error
\* the responder returned is nil, which the field isNil records.
New(prompt, resps, opts) ==
    IF Cardinality(resps) <= 1
    THEN [isNil |-> TRUE, r |-> ZeroR(prompt), err |-> Err("too few", 0)]
    ELSE IF \E v \in resps : BadKey(v)
    THEN [isNil |-> TRUE, r |-> ZeroR(prompt), err |-> Err("bad key", 0)]
    ELSE LET res == ApplyOpts(opts, 1, ZeroR(prompt), resps)
         IN IF res.err # NilErr
            THEN [isNil |-> TRUE, r |-> ZeroR(prompt), err |-> res.err]
            ELSE [isNil |-> FALSE, r |-> res.r, err |-> NilErr]

\* NewOrPanic: it panics with the error of New, or returns its responder
NewOrPanic(prompt, resps, opts) ==
    LET res == New(prompt, resps, opts)
    IN [panics |-> res.err # NilErr, r |-> res.r, err |-> res.err]

\* -------------------------------------------------- the inputs of the model
\* the prompt texts tried: "Delete File"
Prompts == {<<68, 101, 108, 101, 116, 101, 32, 70, 105, 108, 101>>}

\* the candidate maps tried (their key sets)
CandidateMaps == {S \in SUBSET KeyRunes : Cardinality(S) <= MaxResps}

\* the arguments tried for SetIndents
IndentArgs == {-1, 1}

\* the option functions tried
Options ==
    {OptDefault(d) : d \in KeyRunes}
      \cup {OptMaxReprompts(m) : m \in 0..MaxLimit}
      \cup {OptIndents(f, s) : f \in IndentArgs, s \in IndentArgs}

\* the option lists tried
OptLists == UNION {[1..n -> Options] : n \in 0..MaxOpts}

\* --------------------------------------------------------------- rendering
\* strings.Repeat(" ", n)
RECURSIVE Spaces(_)
Spaces(n) == IF n <= 0 THEN <<>> ELSE <<32>> \o Spaces(n - 1)

\* the least rune of a non-empty set
MinRune(S) == CHOOSE m \in S : \A x \in S : m <= x

\* a faulty getSortedValidResponses: the keys in descending order
RECURSIVE getSortedValidResponses_Descending(_)
getSortedValidResponses_Descending(vr) ==
    IF vr = {} THEN <<>>
    ELSE getSortedValidResponses_Descending(vr \ {MinRune(vr)}) \o <<MinRune(vr)>>

\* getSortedValidResponses: the keys of the map in ascending order
RECURSIVE getSortedValidResponses(_)
getSortedValidResponses(vr) ==
    IF vr = {} THEN <<>>
    ELSE <<MinRune(vr)>> \o getSortedValidResponses(vr \ {MinRune(vr)})

\* the loop of PrintValidResponses over responses from index k: sep is the
\* separator to print next, acc the text printed so far; the result is the
\* pair of them when the loop ends
RECURSIVE PrintResponsesFrom(_, _, _, _, _)
PrintResponsesFrom(r, keys, k, sep, acc) ==
    IF k > Len(keys) THEN [sep |-> sep, acc |-> acc]
    ELSE IF r.hasDflt /\ keys[k] = r.dflt
    THEN PrintResponsesFrom(r, keys, k + 1, sep, acc)
    ELSE PrintResponsesFrom(r, keys, k + 1, <<47>>, acc \o sep \o <<keys[k]>>)

\* PrintValidResponses: the text it prints, "(" ... "?): "
PrintValidResponses(r, vr) ==
    LET first == IF r.hasDflt THEN <<91, r.dflt, 93>> ELSE <<>>
        sep0 == IF r.hasDflt THEN <<47>> ELSE <<>>
        done == PrintResponsesFrom(r, getSortedValidResponses(vr), 1, sep0,
                                   <<40>> \o first)
    IN done.acc \o done.sep \o <<helpRune>> \o <<41, 58, 32>>

\* PrintPrompt: the text it prints
PrintPrompt(r, vr) == r.prompt \o <<63, 32>> \o PrintValidResponses(r, vr)

\* -------------------------------------------------------- the response loop
\* a faulty getResp: the rune is checked lowercased but returned as typed
getResp_AsTyped(r, vr, resp, rerr) ==
    IF rerr # NilErr
    THEN [resp |-> ReplacementChar, err |-> rerr]
    ELSE IF r.hasDflt /\ IsSpace(resp)
    THEN [resp |-> r.dflt, err |-> NilErr]
    ELSE IF resp # helpRune
    THEN IF ToLower(resp) \notin vr
         THEN [resp |-> ReplacementChar, err |-> Err("Bad response", ToLower(resp))]
         ELSE [resp |-> resp, err |-> NilErr]
    ELSE [resp |-> resp, err |-> NilErr]

\* a faulty getResp: whitespace selects r.dflt whether or not a default
\* was set
getResp_SpaceAlways(r, vr, resp, rerr) ==
    IF rerr # NilErr
    THEN [resp |-> ReplacementChar, err |-> rerr]
    ELSE IF IsSpace(resp)
    THEN [resp |-> r.dflt, err |-> NilErr]
    ELSE IF resp # helpRune
    THEN IF ToLower(resp) \notin vr
         THEN [resp |-> ReplacementChar, err |-> Err("Bad response", ToLower(resp))]
         ELSE [resp |-> ToLower(resp), err |-> NilErr]
    ELSE [resp |-> resp, err |-> NilErr]

\* a faulty getResp: a rejected rune is returned with its error
getResp_RejectedRuneKept(r, vr, resp, rerr) ==
    IF rerr # NilErr
    THEN [resp |-> ReplacementChar, err |-> rerr]
    ELSE IF r.hasDflt /\ IsSpace(resp)
    THEN [resp |-> r.dflt, err |-> NilErr]
    ELSE IF resp # helpRune
    THEN IF ToLower(resp) \notin vr
         THEN [resp |-> ToLower(resp), err |-> Err("Bad response", ToLower(resp))]
         ELSE [resp |-> ToLower(resp), err |-> NilErr]
    ELSE [resp |-> resp, err |-> NilErr]

\* a faulty getResp: the error names the rune as it was read
getResp_ErrorNamesTyped(r, vr, resp, rerr) ==
    IF rerr # NilErr
    THEN [resp |-> ReplacementChar, err |-> rerr]
    ELSE IF r.hasDflt /\ IsSpace(resp)
    THEN [resp |-> r.dflt, err |-> NilErr]
    ELSE IF resp # helpRune
    THEN IF ToLower(resp) \notin vr
         THEN [resp |-> ReplacementChar, err |-> Err("Bad response", resp)]
         ELSE [resp |-> ToLower(resp), err |-> NilErr]
    ELSE [resp |-> resp, err |-> NilErr]

\* getResp on what getRune returned (the rune and error of ReadRune): the
\* response and the error
getResp(r, vr, resp, rerr) ==
    IF rerr # NilErr
    THEN [resp |-> ReplacementChar, err |-> rerr]
    ELSE IF r.hasDflt /\ IsSpace(resp)
    THEN [resp |-> r.dflt, err |-> NilErr]
    ELSE IF resp # helpRune
    THEN IF ToLower(resp) \notin vr
         THEN [resp |-> ReplacementChar, err |-> Err("Bad response", ToLower(resp))]
         ELSE [resp |-> ToLower(resp), err |-> NilErr]
    ELSE [resp |-> resp, err |-> NilErr]

\* a faulty IsHelp: the help rune is handled like any other response
IsHelp_Never(resp) == FALSE

\* GetResponseIndent: the loop goes round again for help without counting
IsHelp(resp) == resp = helpRune

\* a faulty EndsLoop: end of input is retried like any other error
EndsLoop_NilOnly(e) == e = NilErr

\* GetResponseIndent: the loop returns at once on these errors
EndsLoop(e) == e = NilErr \/ e = EOF

\* a faulty Exhausted: the loop returns one attempt early
Exhausted_OneEarly(r, n) == r.limitPrompts /\ n >= r.maxReprompts

\* a faulty Exhausted: the count is compared with maxReprompts whether or
\* not a limit was set
Exhausted_LimitAlways(r, n) == n > r.maxReprompts

\* GetResponseIndent: the loop returns once the count passes the limit
Exhausted(r, n) == r.limitPrompts /\ n > r.maxReprompts

\* a faulty Attempt: when the count passes the limit the error of the
\* attempt is replaced by an error of another kind
Attempt_OwnExhaustedError(r, vr, n, rd) ==
    LET res == getResp(r, vr, rd.resp, rd.err)
        out == ~IsHelp(res.resp) /\ ~EndsLoop(res.err) /\ Exhausted(r, n + 1)
    IN [response |-> res.resp,
        err |-> IF out THEN Err("Retries exhausted", 0) ELSE res.err,
        help |-> IsHelp(res.resp),
        back |-> ~IsHelp(res.resp) /\ (EndsLoop(res.err) \/ Exhausted(r, n + 1))]

\* One round of the loop of GetResponseIndent after the prompt, with i = n
\* and rd what ReadRune delivered: the response and error of getResp,
\* whether the round was a help request (help is printed, i is unchanged)
\* and whether GetResponseIndent returns
Attempt(r, vr, n, rd) ==
    LET res == getResp(r, vr, rd.resp, rd.err)
    IN [response |-> res.resp,
        err |-> res.err,
        help |-> IsHelp(res.resp),
        back |-> ~IsHelp(res.resp) /\ (EndsLoop(res.err) \/ Exhausted(r, n + 1))]

\* a faulty Dies: the OrDie variants exit on EOF only
Dies_OnEOFOnly(die, e) == die /\ e = EOF

\* GetResponseIndentOrDie: the error GetResponseIndent returned makes the
\* caller print it and exit (die: the caller is an OrDie variant)
Dies(die, e) == die /\ e # NilErr

\* term.MakeRaw when it succeeds: the mode it leaves the terminal in
MakeRaw(mode) == "raw"

\* a faulty Restore: nothing is restored
Restore_Skipped(mode, state) == mode

\* the deferred term.Restore of getRune: the mode after getRune returns,
\* given the mode during the read and the state MakeRaw returned ("none"
\* when MakeRaw failed and nothing was deferred)
Restore(mode, state) == IF state = "none" THEN mode ELSE state

\* the modes the terminal may be in when a session starts
TermModes == {"cooked", "raw"}

\* the indents tried as arguments of GetResponseIndent(OrDie)
IndentParams == {0, 1}

\* a faulty Consumed: every read takes a rune from the reader
Consumed_Always(rd) == 1

\* the number of runes a ReadRune that delivers rd takes from the reader:
\* one when it delivers a rune, none when it delivers an error
Consumed(rd) == IF rd.err = NilErr THEN 1 ELSE 0

\* what ReadRune may deliver: a rune of the model, end of input, an error
ReadResults ==
    {[resp |-> c, err |-> NilErr] : c \in Runes}
      \cup {[resp |-> 0, err |-> EOF], [resp |-> 0, err |-> ReadErr]}

VARIABLES
    r,            \* the responder New returned
    responses,    \* the map handed to New, which is also r.validResps
    opts,         \* the options handed to New (while New runs)
    newRes,       \* what New returned
    pc,           \* where the caller or the running call is
    orDie,        \* the running call is an OrDie variant
    i,            \* GetResponseIndent: i
    prefix,       \* GetResponseIndent: len(prefix)
    secondPrefix, \* GetResponseIndent: len(secondPrefix)
    response,     \* GetResponseIndent: response (the named result)
    err,          \* GetResponseIndent: err (the named result)
    ch,           \* getRune: the rune ReadRune delivered (0: none yet)
    termMode,     \* the mode of the terminal behind fd
    rawState,     \* getRune: the state MakeRaw returned, "none" if it failed
    origMode,     \* the terminal mode when the running call started
    returned,     \* the last call has returned to its caller
    stdout,       \* the last prompt line the running call wrote to stdout
    stderr,       \* the last error line the running call wrote to stderr
    exitStatus,   \* the status os.Exit was called with (-1: not called)
    nPrompts,     \* prompts printed by the running call
    nHelp,        \* help texts printed by the running call
    nBad,         \* invalid runes read by the running call
    nReadErr,     \* read errors other than EOF met by the running call
    foldC,        \* case folding: the rune whose two case forms are fed
    outUpper,     \* case folding: the round fed the upper case form of foldC
    outLower,     \* case folding: the round fed the lower case form of foldC
    nRunes,       \* runes ReadRune delivered to the running call
    failedBefore, \* the caller has seen a call return the error of its last attempt
    fr,           \* the FixedResponse the caller holds
    frOut         \* what the last call of the FixedResponse came to

vars == <<r, responses, opts, newRes, pc, orDie, i, prefix, secondPrefix,
          response, err, ch, termMode, rawState, origMode, returned,
          stdout, stderr, exitStatus, nPrompts, nHelp, nBad, nReadErr,
          foldC, outUpper, outLower, nRunes, failedBefore, fr, frOut>>

\* what no step of a running call changes
confVars == <<r, responses, opts, newRes, foldC, outUpper, outLower,
              failedBefore, fr, frOut>>

\* what the construction of a responder leaves alone
sessionVars == <<orDie, i, prefix, secondPrefix, response, err, ch, termMode,
                 rawState, origMode, returned, stdout, stderr, exitStatus,
                 nPrompts, nHelp, nBad, nReadErr, foldC, outUpper, outLower,
                 nRunes, failedBefore, fr, frOut>>

\* no round: the value of outUpper and outLower before the rune is fed
NoRound == [response |-> 0, err |-> NilErr, help |-> FALSE, back |-> FALSE]

\* nothing is fed outside the case-folding specification
NoFold == foldC = 0 /\ outUpper = NoRound /\ outLower = NoRound

NoLine == [indent |-> 0, err |-> NilErr]

\* the zero FixedResponse
NoFR == [Response |-> 0, Err |-> NilErr]

\* no call of a FixedResponse has been made
NoOut == [entry |-> "none", first |-> 0, second |-> 0,
          response |-> 0, err |-> NilErr, exits |-> FALSE]

\* no FixedResponse is used outside its own specification
NoFixed == fr = NoFR /\ frOut = NoOut

\* no call of the responder has been made yet
Quiet ==
    /\ orDie = FALSE
    /\ i = 0 /\ prefix = 0 /\ secondPrefix = 0
    /\ response = 0 /\ err = NilErr /\ ch = 0
    /\ termMode \in TermModes
    /\ rawState = "none"
    /\ origMode = termMode
    /\ returned = FALSE
    /\ stdout = <<>> /\ stderr = NoLine /\ exitStatus = -1
    /\ nPrompts = 0 /\ nHelp = 0 /\ nBad = 0 /\ nReadErr = 0
    /\ nRunes = 0
    /\ failedBefore = FALSE

\* the state of a caller that holds a responder and has called nothing yet
Idle == pc = "idle" /\ Quiet

\* A successful construction: any responder New returns with a nil error
\* for the inputs of the model.
Constructed ==
    /\ \E p \in Prompts, m \in CandidateMaps, os \in OptLists :
          /\ New(p, m, os).err = NilErr
          /\ r = New(p, m, os).r
          /\ responses = m
          /\ newRes = [isNil |-> FALSE, err |-> NilErr]
    /\ opts = <<>>

Init ==
    /\ Constructed
    /\ Idle
    /\ NoFold
    /\ NoFixed

\* a faulty Call: the count of the call before is kept
Call_CountKept(first, second, die) ==
    /\ pc' = "loop"
    /\ orDie' = die
    /\ i' = i
    /\ prefix' = first
    /\ secondPrefix' = second
    /\ response' = 0 /\ err' = NilErr /\ ch' = 0
    /\ origMode' = termMode
    /\ returned' = FALSE
    /\ nPrompts' = 0 /\ nHelp' = 0 /\ nBad' = 0 /\ nReadErr' = 0
    /\ nRunes' = 0
    /\ stdout' = <<>> /\ stderr' = NoLine
    /\ UNCHANGED <<confVars, termMode, rawState, exitStatus>>

\* the start of GetResponseIndent(first, second), called by the entry point
\* die says it is: i := 0, the two prefixes
Call(first, second, die) ==
    /\ pc' = "loop"
    /\ orDie' = die
    /\ i' = 0
    /\ prefix' = first
    /\ secondPrefix' = second
    /\ response' = 0 /\ err' = NilErr /\ ch' = 0
    /\ origMode' = termMode
    /\ returned' = FALSE
    /\ nPrompts' = 0 /\ nHelp' = 0 /\ nBad' = 0 /\ nReadErr' = 0
    /\ nRunes' = 0
    /\ stdout' = <<>> /\ stderr' = NoLine
    /\ UNCHANGED <<confVars, termMode, rawState, exitStatus>>

\* the caller calls r.GetResponse()
GetResponse ==
    /\ pc = "idle"
    /\ Call(r.indentFirst, r.indent, FALSE)

\* the caller calls r.GetResponseOrDie()
GetResponseOrDie ==
    /\ pc = "idle"
    /\ Call(r.indentFirst, r.indent, TRUE)

\* the caller calls r.GetResponseIndent(f, s)
GetResponseIndent ==
    /\ pc = "idle"
    /\ \E f \in IndentParams, s \in IndentParams : Call(f, s, FALSE)

\* the caller calls r.GetResponseIndentOrDie(f, s)
GetResponseIndentOrDie ==
    /\ pc = "idle"
    /\ \E f \in IndentParams, s \in IndentParams : Call(f, s, TRUE)

\* The top of the loop up to the read: print the prefix and the prompt,
\* then getResp calls getRune, where term.MakeRaw succeeds or fails and
\* ReadRune blocks.
Prompt ==
    /\ pc = "loop"
    /\ nPrompts < MaxReads
    /\ stdout' = Spaces(prefix) \o PrintPrompt(r, responses)
    /\ prefix' = secondPrefix
    /\ nPrompts' = nPrompts + 1
    /\ \E ok \in BOOLEAN :
          IF ok
          THEN rawState' = termMode /\ termMode' = MakeRaw(termMode)
          ELSE rawState' = "none" /\ termMode' = termMode
    /\ ch' = 0
    /\ pc' = "ReadRune"
    /\ UNCHANGED <<confVars, orDie, i, secondPrefix, response, err,
                   origMode, returned, stderr, exitStatus,
                   nHelp, nBad, nReadErr, nRunes>>

\* ReadRune delivers rd: getRune returns (its deferred Restore runs),
\* getResp maps and checks the rune, and GetResponseIndent prints the help
\* and goes round again, or counts the attempt and returns or prints the
\* error and goes round again. A return to an OrDie variant with an error
\* prints it and exits.
getRuneReturn ==
    /\ pc = "ReadRune"
    /\ \E rd \in ReadResults :
          LET res == Attempt(r, responses, i, rd)
              dies == res.back /\ Dies(orDie, res.err)
          IN /\ ch' = rd.resp
             /\ nRunes' = nRunes + Consumed(rd)
             /\ termMode' = Restore(termMode, rawState)
             /\ rawState' = "none"
             /\ response' = res.response
             /\ err' = res.err
             /\ IF res.help
                THEN /\ nHelp' = nHelp + 1
                     /\ pc' = "loop"
                     /\ UNCHANGED <<i, returned, stderr, exitStatus, nBad, nReadErr>>
                ELSE /\ i' = i + 1
                     /\ nBad' = IF res.err.kind = "Bad response" THEN nBad + 1 ELSE nBad
                     /\ nReadErr' = IF res.err = ReadErr THEN nReadErr + 1 ELSE nReadErr
                     /\ nHelp' = nHelp
                     /\ pc' = IF dies THEN "exited" ELSE IF res.back THEN "idle" ELSE "loop"
                     /\ returned' = (res.back /\ ~dies)
                     /\ exitStatus' = IF dies THEN errExitStatus ELSE exitStatus
                     /\ stderr' = IF dies THEN [indent |-> r.indent, err |-> res.err]
                                  ELSE IF res.back THEN stderr
                                  ELSE [indent |-> prefix, err |-> res.err]
    /\ UNCHANGED <<confVars, orDie, prefix, secondPrefix, origMode, stdout, nPrompts>>

Next ==
    \/ GetResponse
    \/ GetResponseOrDie
    \/ GetResponseIndent
    \/ GetResponseIndentOrDie
    \/ Prompt
    \/ getRuneReturn

Spec == Init /\ [][Next]_vars

\* ------------------------------------------------- the caller's map, later
\* New keeps the map it is handed (r.validResps = responses) and takes no
\* copy, so the caller, which still holds the map, writes to the
\* responder's response set whenever it writes to its own map. The caller
\* runs between the calls of the responder.

\* the keys the caller writes or deletes after New: ' ' and 'n'
AliasKeys == {32, 110}

\* responses[k] = "..." in the caller, after New
CallerSets ==
    /\ pc = "idle"
    /\ \E k \in AliasKeys : k \notin responses /\ responses' = responses \cup {k}
    /\ UNCHANGED <<r, opts, newRes, pc, sessionVars>>

\* delete(responses, k) in the caller, after New
CallerDeletes ==
    /\ pc = "idle"
    /\ \E k \in AliasKeys : k \in responses /\ responses' = responses \ {k}
    /\ UNCHANGED <<r, opts, newRes, pc, sessionVars>>

\* the caller writes to its map and calls GetResponse
NextAlias ==
    \/ GetResponse
    \/ Prompt
    \/ getRuneReturn
    \/ CallerSets
    \/ CallerDeletes

SpecAlias == Init /\ [][NextAlias]_vars

\* ------------------------------------------------------- one responder, reused
\* A caller keeps its responder and calls GetResponse again and again,
\* whatever the calls return (the loop of Example); it remembers whether a
\* call has come back with the error of its last attempt (the retry limit
\* was passed).
CallerSeesFailure ==
    /\ pc = "idle" /\ returned
    /\ err # NilErr /\ err # EOF
    /\ ~failedBefore
    /\ failedBefore' = TRUE
    /\ UNCHANGED <<r, responses, opts, newRes, pc, orDie, i, prefix,
                   secondPrefix, response, err, ch, termMode, rawState,
                   origMode, returned, stdout, stderr, exitStatus, nPrompts,
                   nHelp, nBad, nReadErr, foldC, outUpper, outLower, nRunes,
                   fr, frOut>>

NextReuse ==
    \/ GetResponse
    \/ Prompt
    \/ getRuneReturn
    \/ CallerSeesFailure

SpecReuse == Init /\ [][NextReuse]_vars

\* ------------------------------------------------------------ construction
\* The caller holds a candidate map and a list of options and constructs a
\* responder with New or with NewOrPanic.
InitNew ==
    /\ pc = "start"
    /\ responses \in CandidateMaps
    /\ opts \in OptLists
    /\ r = ZeroR(<<>>)
    /\ newRes = [isNil |-> TRUE, err |-> NilErr]
    /\ Quiet
    /\ NoFold
    /\ NoFixed

\* r, err := New(prompt, responses, opts...)
CallNew ==
    /\ pc = "start"
    /\ \E p \in Prompts :
          LET res == New(p, responses, opts)
          IN /\ r' = res.r
             /\ newRes' = [isNil |-> res.isNil, err |-> res.err]
             /\ pc' = IF res.err = NilErr THEN "idle" ELSE "failed"
    /\ UNCHANGED <<responses, opts, sessionVars>>

\* r := NewOrPanic(prompt, responses, opts...)
CallNewOrPanic ==
    /\ pc = "start"
    /\ \E p \in Prompts :
          LET res == NewOrPanic(p, responses, opts)
          IN /\ r' = res.r
             /\ newRes' = [isNil |-> res.panics, err |-> res.err]
             /\ pc' = IF res.panics THEN "panicked" ELSE "idle"
    /\ UNCHANGED <<responses, opts, sessionVars>>

NextNew ==
    \/ CallNew
    \/ CallNewOrPanic

SpecNew == InitNew /\ [][NextNew]_vars

\* ------------------------------------------------------------ case folding
\* The first round of a call (i = 0) as a function of the rune read: the
\* same responder is fed the upper case form and the lower case form of one
\* rune.

\* unicode.ToUpper on the runes of the model: the upper case of U+0131
\* (dotless i) is 'I', that of the digraphs U+01C5 and U+01C6 is U+01C4
ToUpper(c) ==
    IF c >= 97 /\ c <= 122 THEN c - 32
    ELSE IF c = 305 THEN 73
    ELSE IF c = 453 \/ c = 454 THEN 452
    ELSE c

InitFold ==
    /\ Constructed
    /\ Idle
    /\ foldC \in Runes \ {helpRune}
    /\ outUpper = NoRound
    /\ outLower = NoRound
    /\ NoFixed

FeedUpper ==
    /\ outUpper = NoRound
    /\ outUpper' = Attempt(r, responses, 0, [resp |-> ToUpper(foldC), err |-> NilErr])
    /\ UNCHANGED <<r, responses, opts, newRes, pc, orDie, i, prefix, secondPrefix,
                   response, err, ch, termMode, rawState, origMode, returned,
                   stdout, stderr, exitStatus, nPrompts, nHelp, nBad, nReadErr,
                   foldC, outLower, nRunes, failedBefore, fr, frOut>>

FeedLower ==
    /\ outLower = NoRound
    /\ outLower' = Attempt(r, responses, 0, [resp |-> ToLower(foldC), err |-> NilErr])
    /\ UNCHANGED <<r, responses, opts, newRes, pc, orDie, i, prefix, secondPrefix,
                   response, err, ch, termMode, rawState, origMode, returned,
                   stdout, stderr, exitStatus, nPrompts, nHelp, nBad, nReadErr,
                   foldC, outUpper, nRunes, failedBefore, fr, frOut>>

NextFold ==
    \/ FeedUpper
    \/ FeedLower

SpecFold == InitFold /\ [][NextFold]_vars

\* ------------------------------------------------------- the FixedResponse
\* FixedResponse{Response, Err}: a responder that reads nothing. The result
\* of a method is the rune and the error it returns (the error is nil for
\* the one-value methods) and whether it calls os.Exit instead.
FixedResult(resp, e, exits) == [response |-> resp, err |-> e, exits |-> exits]

\* fr.GetResponse()
FixedGetResponse(f) == FixedResult(f.Response, f.Err, FALSE)

\* a faulty FixedGetResponseOrDie: the rune is returned whatever Err is
FixedGetResponseOrDie_NeverExits(f) == FixedResult(f.Response, NilErr, FALSE)

\* fr.GetResponseOrDie()
FixedGetResponseOrDie(f) ==
    IF f.Err # NilErr
    THEN FixedResult(0, NilErr, TRUE)
    ELSE FixedResult(f.Response, NilErr, FALSE)

\* fr.GetResponseIndent(first, second)
FixedGetResponseIndent(f, first, second) == FixedResult(f.Response, f.Err, FALSE)

\* fr.GetResponseIndentOrDie(first, second)
FixedGetResponseIndentOrDie(f, first, second) == FixedGetResponseOrDie(f)

\* the FixedResponse values tried: any rune of the model (no check is made
\* of it), with a nil error, EOF or another error
FixedResponses == {[Response |-> c, Err |-> e] : c \in Runes, e \in {NilErr, EOF, ReadErr}}

\* the caller holds a FixedResponse and no responder made by New
InitFixed ==
    /\ pc = "idle"
    /\ r = ZeroR(<<>>)
    /\ responses = {}
    /\ opts = <<>>
    /\ newRes = [isNil |-> TRUE, err |-> NilErr]
    /\ Quiet
    /\ NoFold
    /\ fr \in FixedResponses
    /\ frOut = NoOut

\* the caller's call of the method entry with indents first and second
\* comes to res: it returns, or the process exits
FixedCall(entry, first, second, res) ==
    /\ frOut' = [entry |-> entry, first |-> first, second |-> second,
                 response |-> res.response, err |-> res.err, exits |-> res.exits]
    /\ pc' = IF res.exits THEN "exited" ELSE "idle"
    /\ exitStatus' = IF res.exits THEN errExitStatus ELSE exitStatus
    /\ UNCHANGED <<r, responses, opts, newRes, orDie, i, prefix, secondPrefix,
                   response, err, ch, termMode, rawState, origMode, returned,
                   stdout, stderr, nPrompts, nHelp, nBad, nReadErr, foldC,
                   outUpper, outLower, nRunes, failedBefore, fr>>

\* the caller calls fr.GetResponse()
CallFixedGetResponse ==
    /\ pc = "idle"
    /\ FixedCall("GetResponse", 0, 0, FixedGetResponse(fr))

\* the caller calls fr.GetResponseOrDie()
CallFixedGetResponseOrDie ==
    /\ pc = "idle"
    /\ FixedCall("GetResponseOrDie", 0, 0, FixedGetResponseOrDie(fr))

\* the caller calls fr.GetResponseIndent(f, s)
CallFixedGetResponseIndent ==
    /\ pc = "idle"
    /\ \E f \in IndentParams, s \in IndentParams :
          FixedCall("GetResponseIndent", f, s, FixedGetResponseIndent(fr, f, s))

\* the caller calls fr.GetResponseIndentOrDie(f, s)
CallFixedGetResponseIndentOrDie ==
    /\ pc = "idle"
    /\ \E f \in IndentParams, s \in IndentParams :
          FixedCall("GetResponseIndentOrDie", f, s, FixedGetResponseIndentOrDie(fr, f, s))

NextFixed ==
    \/ CallFixedGetResponse
    \/ CallFixedGetResponseOrDie
    \/ CallFixedGetResponseIndent
    \/ CallFixedGetResponseIndentOrDie

SpecFixed == InitFixed /\ [][NextFixed]_vars

\* ------------------------------------------------------------------ claims
\* GetResponseIndent has returned, to the caller or to an OrDie variant
\* (which then exited)
InnerReturned == returned \/ pc = "exited"

\* every rune the running call has read so far was an invalid response
OnlyBadSoFar == nHelp = 0 /\ nReadErr = 0 /\ i = nBad

\* C1: with a retry limit N and an input that starts with N+1 invalid runes
\* (no help request among them), GetResponseIndent returns an error after
\* the (N+1)th invalid rune and not earlier, having printed the prompt
\* exactly N+1 times.
C1_ErrorAfterLimitPlusOne ==
    (r.limitPrompts /\ OnlyBadSoFar) =>
        /\ nBad <= r.maxReprompts + 1
        /\ (InnerReturned /\ err # NilErr) <=> (nBad = r.maxReprompts + 1)
        /\ (InnerReturned /\ err # NilErr) => nPrompts = r.maxReprompts + 1

C1_Witness ==
    /\ returned /\ err.kind = "Bad response"
    /\ r.limitPrompts /\ r.maxReprompts = 2
    /\ OnlyBadSoFar /\ nBad = 3 /\ nPrompts = 3

\* C2: a help request does not count as an attempt and does not end the
\* session: right after a '?' the loop is at its top with i unchanged, and a
\* call that read only help requests and then one valid response returns
\* that response with a nil error and i = 1, whatever the retry limit.
C2_HelpIsFree ==
    /\ (ch = helpRune) =>
          /\ pc = "loop" /\ ~InnerReturned
          /\ i = nBad + nReadErr
    /\ (InnerReturned /\ err = NilErr /\ nBad = 0 /\ nReadErr = 0) =>
          /\ i = 1
          /\ response \in responses

C2_Witness ==
    /\ returned /\ err = NilErr /\ response = 110
    /\ nHelp = 2 /\ i = 1
    /\ r.limitPrompts /\ r.maxReprompts = 1

\* C3: end of input ends the session at once: whenever a read yields EOF,
\* whatever was read before and whatever the retry limit, the call returns
\* the EOF error with no further prompt (every prompt printed was followed
\* by exactly one read).
C3_EOFIsTerminal ==
    (err = EOF) =>
        /\ InnerReturned
        /\ pc # "loop"
        /\ nPrompts = nHelp + i

C3_Witness ==
    /\ returned /\ err = EOF
    /\ nBad = 1 /\ nHelp = 1 /\ nPrompts = 3
    /\ r.limitPrompts /\ r.maxReprompts = 2

\* C4: a call that returns a nil error returns a key of the response set:
\* the rune typed, lowercased, or the default; so never an uppercase rune, a
\* whitespace rune or '?'.
C4_ResultIsAKey ==
    (InnerReturned /\ err = NilErr) =>
        /\ response \in responses
        /\ response = ToLower(ch) \/ (r.hasDflt /\ response = r.dflt)
        /\ ~IsUpper(response) /\ ~IsSpace(response) /\ response # helpRune

C4_Witness == returned /\ err = NilErr /\ ch = 89 /\ response = 121

\* C5: when a read delivers a whitespace rune, a responder with a default
\* returns the default with a nil error; a responder without a default
\* rejects it with a "Bad response" error and counts one attempt.
C5_WhitespaceIsDefault ==
    [][(pc = "ReadRune" /\ IsSpace(ch')) =>
          IF r.hasDflt
          THEN /\ response' = r.dflt /\ err' = NilErr
               /\ returned'
          ELSE /\ err'.kind = "Bad response"
               /\ response' = ReplacementChar
               /\ i' = i + 1 /\ nBad' = nBad + 1]_vars

C5_Witness ==
    /\ ~r.hasDflt /\ ch = 32 /\ err.kind = "Bad response"
    /\ i = 1 /\ pc = "loop"

\* both case forms of foldC have been fed, and foldC is a rune that is case
\* folded: not whitespace when there is a default ('?' is never fed)
BothFed ==
    /\ outUpper # NoRound /\ outLower # NoRound
    /\ ~(r.hasDflt /\ IsSpace(foldC))

\* the same outcome: the same rune accepted, or both rejected (whatever rune
\* the error message names)
SameOutcome(a, b) ==
    /\ a.response = b.response
    /\ (a.err = NilErr) <=> (b.err = NilErr)
    /\ a.back = b.back /\ a.help = b.help

\* C6 as claimed: for every response set and every rune c (other than '?'
\* and, with a default, whitespace) the upper case form of c and the lower
\* case form of c give the same outcome.
C6_CaseFolding == BothFed => SameOutcome(outUpper, outLower)

\* C6 as amended: the two case forms of c give the same outcome whenever
\* the upper case form of c lowercases to the lower case form of c (all
\* ASCII letters do); with responses {y,n}, 'Y' is accepted as 'y'.
C6_CaseFoldingAmended ==
    /\ (BothFed /\ ToLower(ToUpper(foldC)) = ToLower(foldC)) => outUpper = outLower
    /\ (outUpper # NoRound /\ foldC = 121 /\ 121 \in responses) =>
          /\ outUpper.response = 121 /\ outUpper.err = NilErr
          /\ outUpper.back

C6_Witness ==
    /\ foldC = 121 /\ responses = {110, 121} /\ ~r.hasDflt
    /\ outUpper.response = 121 /\ outUpper.back
    /\ outLower = outUpper

\* C7: raw mode is held for the read only. During a read the terminal is in
\* raw mode with the prior mode saved, or (MakeRaw failed) still in the
\* prior mode with the read going on; at every other point, the return and
\* the exit of an OrDie variant included, the mode is the one the terminal
\* had when the call started.
C7_RawModeIsScoped ==
    IF pc = "ReadRune"
    THEN \/ rawState = "none" /\ termMode = origMode
         \/ rawState = origMode /\ termMode = "raw"
    ELSE rawState = "none" /\ termMode = origMode

C7_Witness ==
    /\ pc = "exited" /\ err = ReadErr /\ exitStatus = 1
    /\ origMode = "cooked" /\ termMode = "cooked" /\ nPrompts = 2

\* the option o breaks its documented rule for the candidate map m
OptionMustFail(o, m) ==
    \/ o.op = "SetDefault" /\ o.a \notin m
    \/ o.op = "SetMaxReprompts" /\ o.a <= 0
    \/ o.op = "SetIndents" /\ (o.a < 0 \/ o.b < 0)

\* the arguments of the construction break a documented rule
MustFail ==
    \/ Cardinality(responses) < 2
    \/ \E k \in responses : IsUpper(k) \/ IsSpace(k) \/ k = 63
    \/ \E j \in 1..Len(opts) : OptionMustFail(opts[j], responses)

\* C8: New returns an error and a nil responder if and only if the
\* candidate map has fewer than 2 keys, or a key is uppercase, whitespace or
\* '?', or some option fails (SetDefault(d): d is no key; SetMaxReprompts(m):
\* m <= 0; SetIndents: an indent is negative); otherwise it returns a
\* responder and a nil error. NewOrPanic panics in exactly those cases.
C8_ConstructionIsExact ==
    (pc # "start") =>
        /\ (pc \in {"failed", "panicked"}) <=> MustFail
        /\ (pc \in {"failed", "panicked"}) => (newRes.isNil /\ newRes.err # NilErr)
        /\ (pc = "idle") => (~newRes.isNil /\ newRes.err = NilErr)

C8_Witness ==
    /\ pc = "failed" /\ newRes.isNil /\ newRes.err.kind = "SetDefault"
    /\ Cardinality(responses) = 2
    /\ Len(opts) = 2 /\ opts[1] = OptMaxReprompts(1) /\ opts[2].op = "SetDefault"

\* C9: the response set of a constructed responder never changes in a way
\* that breaks what New checked, whatever the caller does with its map
\* afterwards: it has at least 2 keys, no key is uppercase, whitespace or
\* '?', and the default, if any, is one of its keys.
C9_ResponseSetImmutable ==
    /\ Cardinality(responses) >= 2
    /\ \A k \in responses : ~IsUpper(k) /\ ~IsSpace(k) /\ k # helpRune
    /\ r.hasDflt => r.dflt \in responses

\* the number of runes of S below x
Rank(x, S) == Cardinality({y \in S : y < x})

\* the runes of S, each once, in ascending order
Ascending(S) == [j \in 1..Cardinality(S) |-> CHOOSE x \in S : Rank(x, S) = j - 1]

\* the texts of slots joined by sep
RECURSIVE Join(_, _)
Join(slots, sep) ==
    IF Len(slots) = 0 THEN <<>>
    ELSE IF Len(slots) = 1 THEN slots[1]
    ELSE slots[1] \o sep \o Join(Tail(slots), sep)

\* the slots of the prompt line: "[d]" first when there is a default, the
\* other keys in ascending order, "?" last
PromptSlots ==
    LET others == IF r.hasDflt THEN responses \ {r.dflt} ELSE responses
    IN (IF r.hasDflt THEN << <<91, r.dflt, 93>> >> ELSE <<>>)
         \o [j \in 1..Cardinality(others) |-> <<Ascending(others)[j]>>]
         \o << <<63>> >>

\* prompt text, "? ", "(", the slots joined by "/", "): "
PromptLine == r.prompt \o <<63, 32, 40>> \o Join(PromptSlots, <<47>>) \o <<41, 58, 32>>

\* C10: the prompt line printed (after the indent of the loop) is the
\* prompt text, "? ", "(", the slots joined by "/" and "): ", the slots
\* being the default as "[d]" first (if there is one), then every other key
\* once in ascending order, then '?'. For responses {y,n} it is
\* "Delete File? ([y]/n/?): " with default y and "Delete File? (n/y/?): "
\* with no default.
C10_PromptLine ==
    (nPrompts >= 1) =>
        /\ \E k \in 0..Len(stdout) : stdout = Spaces(k) \o PromptLine
        /\ (responses = {110, 121} /\ r.hasDflt /\ r.dflt = 121) =>
              PromptLine = r.prompt \o <<63, 32, 40, 91, 121, 93, 47, 110, 47, 63, 41, 58, 32>>
        /\ (responses = {110, 121} /\ ~r.hasDflt) =>
              PromptLine = r.prompt \o <<63, 32, 40, 110, 47, 121, 47, 63, 41, 58, 32>>

C10_Witness ==
    /\ pc = "ReadRune" /\ nPrompts = 1
    /\ r.hasDflt /\ r.dflt = 121 /\ responses = {110, 121, 305}
    /\ stdout = <<68, 101, 108, 101, 116, 101, 32, 70, 105, 108, 101,
                  63, 32, 40, 91, 121, 93, 47, 110, 47, 305, 47, 63, 41, 58, 32>>

\* C11: whenever GetResponseIndent returns a non-nil error (the last of
\* the attempts allowed was invalid or met a read error, or the input
\* ended), the rune returned is U+FFFD: not the rune read, not its lower
\* case form, not the default, no key.
C11_ErrorMeansReplacementChar ==
    (InnerReturned /\ err # NilErr) =>
        /\ response = ReplacementChar
        /\ response # ch /\ response # ToLower(ch)
        /\ response # r.dflt
        /\ response \notin responses

C11_Witness ==
    /\ returned /\ err.kind = "Bad response" /\ ch = 73
    /\ r.hasDflt /\ r.dflt = 121
    /\ r.limitPrompts /\ i = r.maxReprompts + 1
    /\ response = ReplacementChar

\* C12: a responder with no retry limit never returns because of an
\* invalid rune or a read error other than EOF, however many it meets: after
\* each the loop goes round again, and a return carries a key of the
\* response set with a nil error, or the EOF error.
C12_UnlimitedWithoutLimit ==
    ~r.limitPrompts =>
        /\ (nPrompts >= 1 /\ pc # "ReadRune"
              /\ (err.kind = "Bad response" \/ err = ReadErr)) =>
                 (pc = "loop" /\ ~InnerReturned)
        /\ InnerReturned =>
              \/ err = NilErr /\ response \in responses
              \/ err = EOF

C12_Witness ==
    /\ ~r.limitPrompts /\ returned
    /\ err = NilErr /\ response = 110
    /\ nBad = 1 /\ nReadErr = 1 /\ i = 3

\* GetResponseIndent has returned because the count passed the limit: with
\* an error that is not EOF
ReturnedExhausted == InnerReturned /\ err # NilErr /\ err # EOF

\* C13 as claimed: the error returned when the retry limit is passed is of
\* a kind of its own, neither the "Bad response" error nor the read error
\* of an attempt.
C13_ExhaustionErrorOfOwnKind ==
    ReturnedExhausted => err.kind \notin {"Bad response", "read"}

\* C13 as amended: the error returned when the retry limit is passed is
\* the error of the last attempt itself, the "Bad response" error naming
\* the rune of that attempt or the read error, returned after attempt
\* number maxReprompts + 1.
C13_ExhaustionErrorIsLastError ==
    ReturnedExhausted =>
        /\ r.limitPrompts /\ i = r.maxReprompts + 1
        /\ \/ err = ReadErr /\ nReadErr >= 1
           \/ err = Err("Bad response", ToLower(ch)) /\ nBad >= 1

C13_Witness ==
    /\ returned /\ err = ReadErr
    /\ r.limitPrompts /\ r.maxReprompts = 1
    /\ i = 2 /\ nBad = 1 /\ nReadErr = 1

\* the last rune read was rejected: err is the error getResp made for ch
JustRejected == err.kind = "Bad response" /\ pc # "ReadRune"

\* C14 as claimed: the "Bad response" error names the rune as it was read,
\* uppercase runes included.
C14_ErrorNamesTypedRune == JustRejected => err.c = ch

\* C14 as amended: the "Bad response" error names the lower case form of
\* the rune read (the rune that was looked up and not found), which is the
\* rune read itself when lowercasing leaves it alone.
C14_ErrorNamesLoweredRune ==
    JustRejected =>
        /\ err.c = ToLower(ch)
        /\ err.c \notin responses
        /\ (ToLower(ch) = ch) => err.c = ch

C14_Witness ==
    /\ pc = "loop" /\ ch = 73
    /\ err = Err("Bad response", 105)
    /\ i = 1 /\ nBad = 1

\* C15: a call of GetResponseOrDie or GetResponseIndentOrDie returns to its
\* caller if and only if GetResponseIndent returned a nil error, and then
\* with the response of that call; on every error of GetResponseIndent
\* the error is printed to stderr and the process exits with status 1
\* without returning. No other call exits.
C15_OrDie ==
    /\ (orDie /\ InnerReturned) =>
          /\ returned <=> err = NilErr
          /\ (pc = "exited") <=> err # NilErr
          /\ returned => (pc = "idle" /\ response \in responses /\ exitStatus = -1)
          /\ (pc = "exited") =>
                /\ exitStatus = errExitStatus
                /\ stderr = [indent |-> r.indent, err |-> err]
                /\ ~returned
    /\ (pc = "exited") => orDie
    /\ (exitStatus # -1) => pc = "exited"

C15_Witness ==
    /\ orDie /\ pc = "exited" /\ ~returned
    /\ err.kind = "Bad response" /\ r.limitPrompts /\ i = 2
    /\ exitStatus = 1 /\ stderr.err = err

\* the options of os that no later option of os overrides: the last
\* SetDefault, the last SetMaxReprompts and the last SetIndents, in order
RECURSIVE Effective(_)
Effective(os) ==
    IF os = <<>> THEN <<>>
    ELSE IF \E k \in 2..Len(os) : os[k].op = os[1].op
    THEN Effective(Tail(os))
    ELSE <<os[1]>> \o Effective(Tail(os))

\* New has been called and its candidate map passed the checks of the keys
NewRanOptions ==
    /\ pc \in {"idle", "failed", "panicked"}
    /\ Cardinality(responses) >= 2
    /\ \A k \in responses : ~BadKey(k)

\* C16 as claimed: the outcome of New (success or failure, and the
\* responder) is the outcome of New on the options that are not overridden
\* by a later one; an overridden option has no effect.
C16_OverriddenOptionIgnored ==
    NewRanOptions =>
        \E p \in Prompts :
            LET e == New(p, responses, Effective(opts))
            IN /\ (newRes.err = NilErr) <=> (e.err = NilErr)
               /\ (newRes.err = NilErr) => r = e.r

\* C16 as amended: the options are applied in argument order, and each is
\* validated when it is applied. New fails if and only if some option of
\* the list fails, overridden or not, with the error of the first that
\* does; when none fails, the responder is the one the options that are
\* not overridden give: the last option wins on each field.
C16_OptionsInOrder ==
    NewRanOptions =>
        /\ (newRes.err # NilErr) <=>
              (\E j \in 1..Len(opts) : OptionMustFail(opts[j], responses))
        /\ (newRes.err # NilErr) =>
              \E j \in 1..Len(opts) :
                 /\ OptionMustFail(opts[j], responses)
                 /\ \A k \in 1..(j - 1) : ~OptionMustFail(opts[k], responses)
                 /\ newRes.err.kind = opts[j].op
        /\ (newRes.err = NilErr) =>
              /\ \E p \in Prompts : r = New(p, responses, Effective(opts)).r
              /\ \A j \in 1..Len(opts) :
                    (\A k \in (j + 1)..Len(opts) : opts[k].op # opts[j].op) =>
                       /\ (opts[j].op = "SetDefault") =>
                             (r.hasDflt /\ r.dflt = opts[j].a)
                       /\ (opts[j].op = "SetMaxReprompts") =>
                             (r.limitPrompts /\ r.maxReprompts = opts[j].a)
                       /\ (opts[j].op = "SetIndents") =>
                             (r.indentFirst = opts[j].a /\ r.indent = opts[j].b)

C16_Witness ==
    /\ pc = "idle" /\ newRes.err = NilErr
    /\ opts = <<OptMaxReprompts(2), OptMaxReprompts(1)>>
    /\ r.limitPrompts /\ r.maxReprompts = 1

\* C17: the responder is read-only and reusable. No step of any call
\* changes the prompt text, the default, the retry limit, the indents or
\* the response set; a call starts with i = 0 and nothing printed or read,
\* whatever the calls before it came to; so a call made after a call that
\* passed the retry limit goes round again while i <= maxReprompts and
\* returns the error of an attempt only at i = maxReprompts + 1.
C17_ReusableReadOnly ==
    [][/\ r' = r
       /\ responses' = responses
       /\ (pc = "idle" /\ pc' = "loop") =>
             (i' = 0 /\ nPrompts' = 0 /\ nRunes' = 0 /\ nHelp' = 0)
       /\ (failedBefore' /\ r.limitPrompts /\ pc' \in {"loop", "ReadRune"}) =>
             i' <= r.maxReprompts
       /\ (failedBefore' /\ ReturnedExhausted') =>
             i' = r.maxReprompts + 1]_vars

C17_Witness ==
    /\ failedBefore /\ returned
    /\ err.kind = "Bad response" /\ nBad = 3 /\ i = 3
    /\ r.limitPrompts /\ r.maxReprompts = 2
    /\ r.hasDflt /\ r.dflt = 121 /\ responses = {110, 121}

\* a call of the FixedResponse has read nothing and written nothing
NoFixedIO ==
    /\ stdout = <<>> /\ stderr = NoLine
    /\ nPrompts = 0 /\ nRunes = 0 /\ ch = 0
    /\ termMode = origMode /\ rawState = "none"

\* C18 as claimed: every call of each of the four methods of a
\* FixedResponse hands the configured rune back to the caller (with the
\* configured error for GetResponse and GetResponseIndent), and reads and
\* writes nothing.
C18_FixedAlwaysReturns ==
    (frOut.entry # "none") =>
        /\ ~frOut.exits /\ pc = "idle"
        /\ frOut.response = fr.Response
        /\ (frOut.entry \in {"GetResponse", "GetResponseIndent"}) => frOut.err = fr.Err
        /\ NoFixedIO

\* C18 as amended: GetResponse and GetResponseIndent return the configured
\* rune and error on every call, whatever the indents; GetResponseOrDie and
\* GetResponseIndentOrDie return the configured rune when the configured
\* error is nil and otherwise exit with status 1 and return nothing; no
\* method reads or writes anything.
C18_FixedReturnsOrExits ==
    (frOut.entry # "none") =>
        /\ (frOut.entry \in {"GetResponse", "GetResponseIndent"}) =>
              /\ frOut.response = fr.Response /\ frOut.err = fr.Err
              /\ ~frOut.exits /\ pc = "idle"
        /\ (frOut.entry \in {"GetResponseOrDie", "GetResponseIndentOrDie"}) =>
              IF fr.Err = NilErr
              THEN frOut.response = fr.Response /\ ~frOut.exits /\ pc = "idle"
              ELSE frOut.exits /\ pc = "exited" /\ exitStatus = errExitStatus
        /\ ~frOut.exits => exitStatus = -1
        /\ NoFixedIO

C18_Witness ==
    /\ frOut.entry = "GetResponseIndentOrDie" /\ frOut.second = 1
    /\ fr = [Response |-> 89, Err |-> EOF]
    /\ frOut.exits /\ pc = "exited" /\ exitStatus = 1
    /\ stderr = NoLine

\* the reads of the running call that have come back, and those of them
\* that delivered no rune (a read error, or EOF, which ends the call)
ReadsDone == IF pc = "ReadRune" THEN nPrompts - 1 ELSE nPrompts
ReadsFailed == nReadErr + (IF err = EOF THEN 1 ELSE 0)

\* C19 as claimed: at every return of GetResponseIndent the number of
\* prompts printed is the number of runes taken from the reader, which is
\* the attempt count plus the number of help requests.
C19_PromptsEqualRunes ==
    InnerReturned =>
        /\ nPrompts = nRunes
        /\ nRunes = i + nHelp

\* C19 as amended: every round prints the prompt once and then calls
\* ReadRune once, so the prompts printed are the reads made, and at every
\* return they are the attempt count plus the help requests; a read takes
\* one rune from the reader when it delivers one and none when it fails
\* (EOF, read error), so the runes taken are the prompts less the failed
\* reads, never more than the prompts, and as many only when no read
\* failed.
C19_OneReadPerPrompt ==
    /\ ReadsDone = i + nHelp
    /\ nRunes = ReadsDone - ReadsFailed
    /\ nRunes <= ReadsDone /\ ReadsDone <= nPrompts
    /\ InnerReturned =>
          /\ nPrompts = i + nHelp
          /\ (nRunes = nPrompts) <=> (ReadsFailed = 0)

C19_Witness ==
    /\ returned /\ err = EOF
    /\ nPrompts = 3 /\ nRunes = 2
    /\ nHelp = 1 /\ i = 2 /\ nBad = 1

\* C20: every key of the response set of a responder New returned can be
\* selected: a call whose first rune read is a key k returns k with a nil
\* error.
C20_EveryKeySelectable ==
    (nPrompts = 1 /\ pc # "ReadRune" /\ ch \in responses) =>
        /\ InnerReturned
        /\ err = NilErr
        /\ response = ch

====
